---------------------------- MODULE Spec2Model ----------------------------
(***************************************************************************)
(* Octocat-Simulator: the pet record, the decay and instruction engines,   *)
(* the command parser, the command links of the README, the state store    *)
(* (load_state / save_state / init_state / get_state) and the two entry    *)
(* points (decay.py main, interact.py main).                               *)
(*                                                                         *)
(* Strings the code inspects character by character (issue titles,         *)
(* instructions) are sequences of one-character strings; strings the code  *)
(* only stores or compares as a whole are TLA+ strings.                    *)
(***************************************************************************)
EXTENDS Integers, Sequences, FiniteSets, TLC

VARIABLES
    rec,        \* the dict handed to apply_decay / apply_instruction (direct calls);
                \* where scripts run, the record data/state.json held at first
    prev,       \* that dict before the last direct call
    lastOp,     \* the last direct call: NoOp, DecayOp or an instruction
    ncalls,     \* number of direct calls made so far
    inodes,     \* file contents, by inode
    canon,      \* directory entry data/state.json     (inode or NoInode)
    tmp,        \* directory entry data/state.json.tmp (inode or NoInode)
    clock,      \* datetime.now(): advances with every time stamp taken
    pc,         \* per invocation: position in main()
    kind,       \* per invocation: "decay" (decay.py), "interact" (interact.py), or
                \* the function called directly: "parse", "link", "get_state",
                \* "round_trip"
    title,      \* per invocation: ISSUE_TITLE as read from the environment
    instr,      \* per invocation: result of parse_instruction
    st,         \* per invocation: the local dict `state`
    loaded,     \* per invocation: the dict load_state returned
    fd,         \* per invocation: inode of the file object it holds open
    fault,      \* per invocation: the I/O error the environment raised in save_state
    overlapped, \* per invocation: another invocation was running at some point of it
    canonAtStart,\* per invocation: content of data/state.json when it started
    canonAtSave,\* per invocation: content of data/state.json when save_state was entered
    exitStatus, \* per invocation: process exit status, once pc is "exit"
    response,   \* per invocation: what was written to the response file
    renames     \* order in which invocations replaced data/state.json

pureVars == <<rec, prev, lastOp, ncalls>>
fsVars   == <<inodes, canon, tmp, clock>>
procVars == <<pc, kind, title, instr, st, loaded, fd, fault, overlapped, canonAtStart,
              canonAtSave, exitStatus, response, renames>>
vars     == <<rec, prev, lastOp, ncalls, inodes, canon, tmp, clock, pc, kind,
              title, instr, st, loaded, fd, fault, overlapped, canonAtStart,
              canonAtSave, exitStatus, response, renames>>

---------------------------------------------------------------------------
(* Bounds of the model *)

\* direct calls of apply_decay / apply_instruction made in a row (SpecPure)
MaxCalls == 2
\* direct calls of apply_decay made in a row (SpecDecay)
MaxDecays == 25

---------------------------------------------------------------------------
(* Python builtins *)

Min(a, b) == IF a < b THEN a ELSE b
Max(a, b) == IF a > b THEN a ELSE b

LowerLetters == <<"a","b","c","d","e","f","g","h","i","j","k","l","m",
                  "n","o","p","q","r","s","t","u","v","w","x","y","z">>
UpperLetters == <<"A","B","C","D","E","F","G","H","I","J","K","L","M",
                  "N","O","P","Q","R","S","T","U","V","W","X","Y","Z">>
Whitespace   == {" ", "\t", "\n"}

UpperChar(c) ==
    IF \E i \in 1..Len(LowerLetters) : LowerLetters[i] = c
    THEN UpperLetters[CHOOSE i \in 1..Len(LowerLetters) : LowerLetters[i] = c]
    ELSE c

\* str.upper()
Upper(s) == [i \in 1..Len(s) |-> UpperChar(s[i])]

RECURSIVE LStrip(_)
LStrip(s) ==
    IF s # <<>> /\ Head(s) \in Whitespace THEN LStrip(Tail(s)) ELSE s

RECURSIVE RStrip(_)
RStrip(s) ==
    IF s # <<>> /\ s[Len(s)] \in Whitespace
    THEN RStrip(SubSeq(s, 1, Len(s) - 1))
    ELSE s

\* str.strip()
Strip(s) == RStrip(LStrip(s))

\* str.split(sep) for a one-character separator: always at least one part
RECURSIVE SplitFrom(_, _, _)
SplitFrom(s, sep, cur) ==
    IF s = <<>> THEN <<cur>>
    ELSE IF Head(s) = sep THEN <<cur>> \o SplitFrom(Tail(s), sep, <<>>)
    ELSE SplitFrom(Tail(s), sep, Append(cur, Head(s)))

Split(s, sep) == SplitFrom(s, sep, <<>>)

---------------------------------------------------------------------------
(* The pet record *)

\* parse_instruction's None; main tests it with `not instruction`, which the
\* empty string satisfies as well
None  == <<>>
\* a key the dict does not hold
NoKey == "<no key>"

FEED == <<"F","E","E","D">>
PLAY == <<"P","L","A","Y">>
PET  == <<"P","E","T">>
CARE == <<"C","A","R","E">>
HEAL == <<"H","E","A","L">>
OCTAVIA == <<"O","C","T","A","V","I","A">>

valid_instructions == <<FEED, PLAY, PET, CARE, HEAL>>
Instructions == {valid_instructions[i] : i \in 1..Len(valid_instructions)}

\* the record init_state builds (its time stamp is set by save_state)
default_state ==
    [ last_updated |-> 0, name |-> "Octavia", health |-> 100, hunger |-> 50,
      mood |-> 80, level |-> 1, owner_count |-> 0,
      status_pic |-> "images/good.png", status_emoji |-> NoKey ]

---------------------------------------------------------------------------
(* decay.py: apply_decay, statement by statement *)

\* mutant: the hunger step is 10, not 20
DecayHungerSlow(state) == [state EXCEPT !.hunger = Min(100, state.hunger + 10)]

DecayHunger(state) == [state EXCEPT !.hunger = Min(100, state.hunger + 20)]

\* mutant: the floor of mood is forgotten
DecayMoodUnclamped(state) == [state EXCEPT !.mood = state.mood - 10]

DecayMood(state) == [state EXCEPT !.mood = Max(0, state.mood - 10)]

\* mutant: the penalty needs both conditions
DecayHealthBoth(state) ==
    IF state.hunger > 80 /\ state.mood < 20
    THEN [state EXCEPT !.health = Max(0, state.health - 5)]
    ELSE state

DecayHealth(state) ==
    IF state.hunger > 80 \/ state.mood < 20
    THEN [state EXCEPT !.health = Max(0, state.health - 5)]
    ELSE state

\* mutant: the hunger thresholds are inclusive at this call site
DecayStatusInclusive(state) ==
    IF state.health < 30 \/ state.hunger >= 80 \/ state.mood < 20
    THEN [state EXCEPT !.status_emoji = "distressed"]
    ELSE IF state.health < 60 \/ state.hunger >= 60 \/ state.mood < 40
    THEN [state EXCEPT !.status_emoji = "neutral"]
    ELSE [state EXCEPT !.status_emoji = "content"]

DecayStatus(state) ==
    IF state.health < 30 \/ state.hunger > 80 \/ state.mood < 20
    THEN [state EXCEPT !.status_emoji = "distressed"]
    ELSE IF state.health < 60 \/ state.hunger > 60 \/ state.mood < 40
    THEN [state EXCEPT !.status_emoji = "neutral"]
    ELSE [state EXCEPT !.status_emoji = "content"]

\* mutant: the health penalty is decided on the values before the decay
apply_decay_penalty_first(state) ==
    DecayStatus(DecayMood(DecayHunger(DecayHealth(state))))

apply_decay(state) == DecayStatus(DecayHealth(DecayMood(DecayHunger(state))))

---------------------------------------------------------------------------
(* interact.py: apply_instruction, statement by statement *)

\* mutant: FEED counts one more owner
FeedCountsOwner(state) ==
    LET s1 == [state EXCEPT !.hunger = Max(0, state.hunger - 30)]
        s2 == [s1 EXCEPT !.mood = Min(100, s1.mood + 10)]
        s3 == [s2 EXCEPT !.health = Min(100, s2.health + 5)]
    IN  [s3 EXCEPT !.owner_count = s3.owner_count + 1]

Feed(state) ==
    LET s1 == [state EXCEPT !.hunger = Max(0, state.hunger - 30)]
        s2 == [s1 EXCEPT !.mood = Min(100, s1.mood + 10)]
    IN  [s2 EXCEPT !.health = Min(100, s2.health + 5)]

\* mutant: PLAY forgets to raise hunger
PlayNoHunger(state) == [state EXCEPT !.mood = Min(100, state.mood + 30)]

Play(state) ==
    LET s1 == [state EXCEPT !.mood = Min(100, state.mood + 30)]
    IN  [s1 EXCEPT !.hunger = Min(100, s1.hunger + 5)]

Pet(state) == [state EXCEPT !.mood = Min(100, state.mood + 20)]

Care(state) ==
    LET s1 == [state EXCEPT !.hunger = Max(0, state.hunger - 20)]
        s2 == [s1 EXCEPT !.mood = Min(100, s1.mood + 15)]
    IN  [s2 EXCEPT !.health = Min(100, s2.health + 3)]

Heal(state) ==
    LET s1 == [state EXCEPT !.health = Min(100, state.health + 20)]
    IN  [s1 EXCEPT !.mood = Min(100, s1.mood + 10)]

\* the if / elif chain of lines 61-85; no branch for any other value
InstructionDeltas(state, instruction) ==
    IF instruction = FEED THEN Feed(state)
    ELSE IF instruction = PLAY THEN Play(state)
    ELSE IF instruction = PET THEN Pet(state)
    ELSE IF instruction = CARE THEN Care(state)
    ELSE IF instruction = HEAL THEN Heal(state)
    ELSE state

InstructionStatus(state) ==
    IF state.health < 30 \/ state.hunger > 80 \/ state.mood < 20
    THEN [state EXCEPT !.status_pic = "images/bad.png"]
    ELSE IF state.health < 60 \/ state.hunger > 60 \/ state.mood < 40
    THEN [state EXCEPT !.status_pic = "images/general.png"]
    ELSE [state EXCEPT !.status_pic = "images/good.png"]

apply_instruction(state, instruction) ==
    InstructionStatus(InstructionDeltas(state, Upper(instruction)))

---------------------------------------------------------------------------
(* interact.py: parse_instruction *)

\* mutant: the pet's name is not compared
parse_instruction_any_pet(issue_title) ==
    LET parts == Split(Strip(issue_title), "|")
    IN  IF Len(parts) # 2 THEN None
        ELSE LET instruction == Upper(Strip(parts[1]))
             IN  IF instruction \notin Instructions THEN None ELSE instruction

parse_instruction(issue_title) ==
    LET parts == Split(Strip(issue_title), "|")
    IN  IF Len(parts) # 2 THEN None
        ELSE LET instruction == Upper(Strip(parts[1]))
                 pet_name    == Strip(parts[2])
             IN  IF Upper(pet_name) # OCTAVIA THEN None
                 ELSE IF instruction \notin Instructions THEN None
                 ELSE instruction

---------------------------------------------------------------------------
(* readme_update.py: the command links of the README *)

DEFAULT_AUTHOR == <<"y","o","u","r","-","n","a","m","e">>

\* ISSUE_BASE up to its {title} field, and what follows the field
IssueBaseHead == <<"i","s","s","u","e","s","/","n","e","w","?","t","i","t","l","e","=">>
IssueBaseTail == <<"&","b","o","d","y","=">>

\* the commands of COMMAND_LINKS, in order (the labels are display text)
COMMAND_LINKS == <<FEED, PLAY, PET, CARE, HEAL>>

\* build_link: the URL inside the Markdown link
build_link(command) ==
    LET link_title == command \o <<"%","7","C">> \o <<"O","c","t","a","v","i","a">>
                              \o <<"%","7","C">> \o DEFAULT_AUTHOR
    IN  IssueBaseHead \o link_title \o IssueBaseTail

\* percent-decoding of a query value, for the one escape the links use
RECURSIVE UrlDecode(_)
UrlDecode(s) ==
    IF s = <<>> THEN <<>>
    ELSE IF Len(s) >= 3 /\ SubSeq(s, 1, 3) = <<"%","7","C">>
    THEN <<"|">> \o UrlDecode(SubSeq(s, 4, Len(s)))
    ELSE <<Head(s)>> \o UrlDecode(Tail(s))

\* the value of the query field `title` of a URL, as the issue form shows it
RECURSIVE UntilAmpersand(_)
UntilAmpersand(s) ==
    IF s = <<>> \/ Head(s) = "&" THEN <<>> ELSE <<Head(s)>> \o UntilAmpersand(Tail(s))

TitleOfLink(url) ==
    UrlDecode(UntilAmpersand(SubSeq(url, Len(IssueBaseHead) + 1, Len(url))))

---------------------------------------------------------------------------
(* The file system: two directory entries and the inodes they name *)

Procs    == {"p1", "p2"}
InodeIds == {"i1", "i2", "i3"}
NoInode  == "-"
NoRec    == [absent |-> TRUE]

FreeInode    == [kind |-> "free",    data |-> NoRec]
EmptyFile    == [kind |-> "empty",   data |-> NoRec]
FullFile(r)  == [kind |-> "full",    data |-> r]
\* some but not all of the bytes of r's serialization
PartFile(r)  == [kind |-> "partial", data |-> r]

\* what a path holds: its inode's content, NoRec-tagged "absent" when unlinked
ContentAt(ino, entry) ==
    IF entry = NoInode THEN [kind |-> "absent", data |-> NoRec] ELSE ino[entry]

\* an inode no directory entry and no open file names is released
Sweep(ino, c, t, f) ==
    [i \in InodeIds |->
        IF i = c \/ i = t \/ (\E p \in Procs : f[p] = i) THEN ino[i] ELSE FreeInode]

FreshInode(ino) == CHOOSE i \in InodeIds : ino[i] = FreeInode

---------------------------------------------------------------------------
(* Inputs *)

\* values of health, hunger and mood that direct calls start from: the clamp
\* limits, both sides of every threshold, and values a delta carries past a limit
HealthInputs == {0, 3, 29, 30, 59, 60, 80, 95, 98, 100}
HungerInputs == {0, 20, 29, 30, 50, 60, 61, 80, 81, 96, 100}
MoodInputs   == {0, 9, 10, 29, 30, 39, 40, 71, 80, 91, 100}

\* a record as interact.py last saved it: status_pic computed from its values
InputRecords ==
    { InstructionStatus([default_state EXCEPT !.health = h, !.hunger = u, !.mood = m]) :
        h \in HealthInputs, u \in HungerInputs, m \in MoodInputs }

\* what data/state.json holds when the invocations start: nothing, the
\* default record, or a record whose fields were all set by hand
InitialFiles ==
    { [kind |-> "absent", data |-> NoRec],
      FullFile(default_state),
      FullFile(InstructionStatus(
          [default_state EXCEPT !.health = 32, !.hunger = 75, !.mood = 25,
                                !.name = "Tako", !.level = 4,
                                !.owner_count = 12])) }

\* the record a file holds, the default one when it holds none
RecordOf(file) == IF file.kind = "full" THEN file.data ELSE default_state

\* ISSUE_TITLE values
Titles ==
    { <<"F","E","E","D","|","O","c","t","a","v","i","a">>,
      <<"p","l","a","y","|","O","C","T","A","V","I","A">>,
      <<"P","E","T","|","O","c","t","a","v","i","a">>,
      <<" ","C","A","R","E"," ","|"," ","o","c","t","a","v","i","a","\n">>,
      <<"H","E","A","L","|","O","c","t","a","v","i","a">>,
      <<"F","E","E","D","|","B","o","b">>,
      <<"F","E","E","D","P","L","A","Y","|","O","c","t","a","v","i","a">>,
      <<"F","E","E","D">>,
      <<"F","E","E","D","|","O","c","t","a","v","i","a","|">>,
      <<>> }

\* titles handed to parse_instruction directly: padding, a command word, a
\* delimiter or none, a name, and what may follow the name
TitlePads     == { <<>>, <<" ">> }
TitleCommands ==
    Instructions \cup
    { <<"f","e","e","d">>, <<"P","l","a","y">>, <<"F","E","E","D","P","L","A","Y">>,
      <<"F","E"," ","E","D">>, <<>> }
TitleBars     == { <<"|">>, <<>> }
TitleNames    ==
    { <<"O","c","t","a","v","i","a">>, <<"O","C","T","A","V","I","A">>,
      <<"o","c","t","a","v","i","a">>, <<"B","o","b">>, <<>> }
TitleTails    == { <<>>, <<"\n">>, <<"|">>, <<"|">> \o DEFAULT_AUTHOR }

ParseTitles ==
    { lead \o command \o pad \o bar \o pad \o pet \o tail :
        lead \in TitlePads, command \in TitleCommands, pad \in TitlePads,
        bar \in TitleBars, pet \in TitleNames, tail \in TitleTails }

\* interact.py main: the title used when ISSUE_TITLE is empty or unset
TestTitle == <<"F","E","E","D","|","O","c","t","a","v","i","a">>

---------------------------------------------------------------------------
(* Direct calls of the two engines *)

\* values of lastOp that are not instructions
NoOp    == <<"none">>
DecayOp == <<"decay">>

InitProcs ==
    /\ pc = [p \in Procs |-> "idle"]
    /\ kind = [p \in Procs |-> "decay"]
    /\ title = [p \in Procs |-> <<>>]
    /\ instr = [p \in Procs |-> None]
    /\ st = [p \in Procs |-> NoRec]
    /\ loaded = [p \in Procs |-> NoRec]
    /\ fd = [p \in Procs |-> NoInode]
    /\ fault = [p \in Procs |-> "none"]
    /\ overlapped = [p \in Procs |-> FALSE]
    /\ canonAtStart = [p \in Procs |-> FreeInode]
    /\ canonAtSave = [p \in Procs |-> FreeInode]
    /\ exitStatus = [p \in Procs |-> 0]
    /\ response = [p \in Procs |-> "none"]
    /\ renames = <<>>

InitFs(file) ==
    /\ inodes = [i \in InodeIds |-> IF i = "i1" /\ file.kind # "absent" THEN file
                                                                        ELSE FreeInode]
    /\ canon = IF file.kind = "absent" THEN NoInode ELSE "i1"
    /\ tmp = NoInode
    /\ clock = 1

InitPure ==
    /\ rec \in InputRecords
    /\ prev = rec
    /\ lastOp = NoOp
    /\ ncalls = 0
    /\ InitFs(FullFile(default_state))
    /\ InitProcs

CallDecay ==
    /\ ncalls < MaxCalls
    /\ rec' = apply_decay(rec)
    /\ prev' = rec
    /\ lastOp' = DecayOp
    /\ ncalls' = ncalls + 1
    /\ UNCHANGED <<fsVars, procVars>>

CallInstruction(i) ==
    /\ ncalls < MaxCalls
    /\ rec' = apply_instruction(rec, i)
    /\ prev' = rec
    /\ lastOp' = i
    /\ ncalls' = ncalls + 1
    /\ UNCHANGED <<fsVars, procVars>>

NextPure == CallDecay \/ \E i \in Instructions : CallInstruction(i)

SpecPure == InitPure /\ [][NextPure]_vars

\* apply_decay alone, over and over
RepeatDecay ==
    /\ ncalls < MaxDecays
    /\ rec' = apply_decay(rec)
    /\ prev' = rec
    /\ lastOp' = DecayOp
    /\ ncalls' = ncalls + 1
    /\ UNCHANGED <<fsVars, procVars>>

SpecDecay == InitPure /\ [][RepeatDecay]_vars

\* parse_instruction called on a title, one call at a time
CallParse(p, t) ==
    /\ \A q \in Procs : pc[q] = "idle"
    /\ kind' = [kind EXCEPT ![p] = "parse"]
    /\ title' = [title EXCEPT ![p] = t]
    /\ instr' = [instr EXCEPT ![p] = parse_instruction(t)]
    /\ pc' = [pc EXCEPT ![p] = "exit"]
    /\ UNCHANGED <<pureVars, fsVars, st, loaded, fd, fault, overlapped,
                   canonAtStart, canonAtSave, exitStatus, response, renames>>

\* a README link is followed: the issue form is filled with the link's title,
\* which interact.py hands to parse_instruction
FollowLink(p, command) ==
    /\ \A q \in Procs : pc[q] = "idle"
    /\ kind' = [kind EXCEPT ![p] = "link"]
    /\ title' = [title EXCEPT ![p] = TitleOfLink(build_link(command))]
    /\ instr' = [instr EXCEPT ![p] = parse_instruction(TitleOfLink(build_link(command)))]
    /\ pc' = [pc EXCEPT ![p] = "exit"]
    /\ UNCHANGED <<pureVars, fsVars, st, loaded, fd, fault, overlapped,
                   canonAtStart, canonAtSave, exitStatus, response, renames>>

NextParse ==
    \E p \in Procs :
        \/ \E t \in ParseTitles : CallParse(p, t)
        \/ \E i \in 1..Len(COMMAND_LINKS) : FollowLink(p, COMMAND_LINKS[i])

InitParse ==
    /\ rec = default_state
    /\ prev = default_state
    /\ lastOp = NoOp
    /\ ncalls = 0
    /\ InitFs(FullFile(default_state))
    /\ InitProcs

SpecParse == InitParse /\ [][NextParse]_vars

---------------------------------------------------------------------------
(* The two scripts, one action per step that another invocation can observe *)

Running(p) == pc[p] \notin {"idle", "exit"}

\* sys.exit(code), directly or from main's `except Exception` handler
Exit(p, code) ==
    /\ pc' = [pc EXCEPT ![p] = "exit"]
    /\ exitStatus' = [exitStatus EXCEPT ![p] = code]

\* decay.py is started (the schedule) or interact.py is (an issue with title t),
\* or a caller enters get_state or save_state(load_state())
Start(p, k, t) ==
    /\ pc[p] = "idle"
    /\ kind' = [kind EXCEPT ![p] = k]
    /\ title' = [title EXCEPT ![p] = t]
    /\ pc' = [pc EXCEPT ![p] = IF k = "interact" THEN "parse" ELSE "load"]
    /\ canonAtStart' = [canonAtStart EXCEPT ![p] = ContentAt(inodes, canon)]
    /\ overlapped' = [q \in Procs |->
                        IF q = p THEN \E r \in Procs : Running(r)
                                 ELSE overlapped[q] \/ Running(q)]
    /\ UNCHANGED <<pureVars, fsVars, instr, st, loaded, fd, fault, canonAtSave,
                   exitStatus, response, renames>>

\* mutant: a rejected title does not end the run
ParseNoShortCircuit(p) ==
    /\ pc[p] = "parse"
    /\ LET issue_title == IF title[p] = <<>> THEN TestTitle ELSE title[p]
       IN  /\ title' = [title EXCEPT ![p] = issue_title]
           /\ instr' = [instr EXCEPT ![p] = parse_instruction(issue_title)]
           /\ pc' = [pc EXCEPT ![p] = "load"]
    /\ UNCHANGED <<pureVars, fsVars, kind, st, loaded, fd, fault, overlapped,
                   canonAtStart, canonAtSave, exitStatus, response, renames>>

\* interact.py main, lines 143-162: the test-mode title, then parse_instruction
Parse(p) ==
    /\ pc[p] = "parse"
    /\ LET issue_title == IF title[p] = <<>> THEN TestTitle ELSE title[p]
           instruction == parse_instruction(issue_title)
       IN  /\ title' = [title EXCEPT ![p] = issue_title]
           /\ instr' = [instr EXCEPT ![p] = instruction]
           /\ pc' = [pc EXCEPT ![p] = IF instruction = <<>> THEN "reject" ELSE "load"]
    /\ UNCHANGED <<pureVars, fsVars, kind, st, loaded, fd, fault, overlapped,
                   canonAtStart, canonAtSave, exitStatus, response, renames>>

\* interact.py main, lines 162-188: the help message, then sys.exit(1)
Reject(p) ==
    /\ pc[p] = "reject"
    /\ response' = [response EXCEPT ![p] = "help"]
    /\ Exit(p, 1)
    /\ UNCHANGED <<pureVars, fsVars, kind, title, instr, st, loaded, fd, fault,
                   overlapped, canonAtStart, canonAtSave, renames>>

\* where a FileNotFoundError of load_state lands: get_state's except clause
\* (utils.py line 102), else main's `except Exception`
NotFound(p) ==
    IF kind[p] = "get_state"
    THEN pc' = [pc EXCEPT ![p] = "init_state"] /\ UNCHANGED exitStatus
    ELSE Exit(p, 1)

\* where load_state's caller goes on with the dict
AfterLoad(p) ==
    CASE kind[p] = "get_state"  -> "return"
      [] kind[p] = "round_trip" -> "save"
      [] OTHER                  -> "decay"

\* load_state, line 29: STATE_FILE.exists()
LoadExists(p) ==
    /\ pc[p] = "load"
    /\ IF canon = NoInode
       THEN NotFound(p)                                  \* FileNotFoundError
       ELSE pc' = [pc EXCEPT ![p] = "load_open"] /\ UNCHANGED exitStatus
    /\ UNCHANGED <<pureVars, fsVars, kind, title, instr, st, loaded, fd, fault,
                   overlapped, canonAtStart, canonAtSave, response, renames>>

\* load_state, line 32: open(STATE_FILE, 'r')
LoadOpen(p) ==
    /\ pc[p] = "load_open"
    /\ IF canon = NoInode
       THEN NotFound(p) /\ UNCHANGED fd                  \* FileNotFoundError
       ELSE /\ fd' = [fd EXCEPT ![p] = canon]
            /\ pc' = [pc EXCEPT ![p] = "load_read"]
            /\ UNCHANGED exitStatus
    /\ UNCHANGED <<pureVars, fsVars, kind, title, instr, st, loaded, fault,
                   overlapped, canonAtStart, canonAtSave, response, renames>>

\* mutant: content that does not parse is replaced by the default dict
LoadReadRepairs(p) ==
    /\ pc[p] = "load_read"
    /\ LET content == inodes[fd[p]]
           closed  == [fd EXCEPT ![p] = NoInode]
           data    == IF content.kind = "full" THEN content.data ELSE default_state
       IN  /\ fd' = closed
           /\ inodes' = Sweep(inodes, canon, tmp, closed)
           /\ st' = [st EXCEPT ![p] = data]
           /\ loaded' = [loaded EXCEPT ![p] = data]
           /\ pc' = [pc EXCEPT ![p] = AfterLoad(p)]
    /\ UNCHANGED <<pureVars, canon, tmp, clock, kind, title, instr, fault,
                   overlapped, canonAtStart, canonAtSave, exitStatus, response,
                   renames>>

\* load_state, line 33: json.load(f), then the file is closed
LoadRead(p) ==
    /\ pc[p] = "load_read"
    /\ LET content == inodes[fd[p]]
           closed  == [fd EXCEPT ![p] = NoInode]
       IN  /\ fd' = closed
           /\ inodes' = Sweep(inodes, canon, tmp, closed)
           /\ IF content.kind = "full"
              THEN /\ st' = [st EXCEPT ![p] = content.data]
                   /\ loaded' = [loaded EXCEPT ![p] = content.data]
                   /\ pc' = [pc EXCEPT ![p] = AfterLoad(p)]
                   /\ UNCHANGED exitStatus
              ELSE /\ Exit(p, 1)                         \* json.JSONDecodeError
                   /\ UNCHANGED <<st, loaded>>
    /\ UNCHANGED <<pureVars, canon, tmp, clock, kind, title, instr, fault,
                   overlapped, canonAtStart, canonAtSave, response, renames>>

\* mutant: the run goes on without applying the decay
DecaySkipped(p) ==
    /\ pc[p] = "decay"
    /\ pc' = [pc EXCEPT ![p] = IF kind[p] = "interact" THEN "instruct" ELSE "save"]
    /\ UNCHANGED <<pureVars, fsVars, kind, title, instr, st, loaded, fd, fault,
                   overlapped, canonAtStart, canonAtSave, exitStatus, response,
                   renames>>

\* decay.py main line 63, interact.py main line 201
Decay(p) ==
    /\ pc[p] = "decay"
    /\ st' = [st EXCEPT ![p] = apply_decay(st[p])]
    /\ pc' = [pc EXCEPT ![p] = IF kind[p] = "interact" THEN "instruct" ELSE "save"]
    /\ UNCHANGED <<pureVars, fsVars, kind, title, instr, loaded, fd, fault,
                   overlapped, canonAtStart, canonAtSave, exitStatus, response,
                   renames>>

\* interact.py main line 205
Instruct(p) ==
    /\ pc[p] = "instruct"
    /\ st' = [st EXCEPT ![p] = apply_instruction(st[p], instr[p])]
    /\ pc' = [pc EXCEPT ![p] = "save"]
    /\ UNCHANGED <<pureVars, fsVars, kind, title, instr, loaded, fd, fault,
                   overlapped, canonAtStart, canonAtSave, exitStatus, response,
                   renames>>

---------------------------------------------------------------------------
(* utils.py: save_state.  The environment may raise an error in any of the  *)
(* three file operations of the try block (lines 56, 57, 60).              *)

\* mutant: the time stamp is put on a fresh default dict, which is then saved
SaveStampDefaults(p) ==
    /\ pc[p] = "save"
    /\ st' = [st EXCEPT ![p] = [default_state EXCEPT !.last_updated = clock]]
    /\ clock' = clock + 1
    /\ canonAtSave' = [canonAtSave EXCEPT ![p] = ContentAt(inodes, canon)]
    /\ pc' = [pc EXCEPT ![p] = "save_open"]
    /\ UNCHANGED <<pureVars, inodes, canon, tmp, kind, title, instr, loaded,
                   fd, fault, overlapped, canonAtStart, exitStatus, response,
                   renames>>

\* lines 47-53: mkdir, the time stamp, the temporary path
SaveStamp(p) ==
    /\ pc[p] = "save"
    /\ st' = [st EXCEPT ![p].last_updated = clock]
    /\ clock' = clock + 1
    /\ canonAtSave' = [canonAtSave EXCEPT ![p] = ContentAt(inodes, canon)]
    /\ pc' = [pc EXCEPT ![p] = "save_open"]
    /\ UNCHANGED <<pureVars, inodes, canon, tmp, kind, title, instr, loaded,
                   fd, fault, overlapped, canonAtStart, exitStatus, response,
                   renames>>

\* line 56: open(temp_file, 'w') creates the file or truncates the one there
SaveOpen(p) ==
    /\ pc[p] = "save_open"
    /\ LET target == IF tmp = NoInode THEN FreshInode(inodes) ELSE tmp
       IN  /\ inodes' = [inodes EXCEPT ![target] = EmptyFile]
           /\ tmp' = target
           /\ fd' = [fd EXCEPT ![p] = target]
    /\ pc' = [pc EXCEPT ![p] = "save_write"]
    /\ UNCHANGED <<pureVars, canon, clock, kind, title, instr, st, loaded,
                   fault, overlapped, canonAtStart, canonAtSave, exitStatus,
                   response, renames>>

\* line 56 raises: nothing is created, nothing truncated
SaveOpenFails(p) ==
    /\ pc[p] = "save_open"
    /\ fault' = [fault EXCEPT ![p] = "open"]
    /\ pc' = [pc EXCEPT ![p] = "cleanup"]
    /\ UNCHANGED <<pureVars, fsVars, kind, title, instr, st, loaded, fd,
                   overlapped, canonAtStart, canonAtSave, exitStatus, response,
                   renames>>

\* All bytes of r written at offset 0 of a file opened with 'w'.  The file is
\* empty unless another invocation wrote to the same inode since the open; the
\* result then depends on the two byte lengths: r's serialization alone, or
\* r's followed by the tail of what was there.
WriteOutcomes(content, r) ==
    IF content.kind = "empty" THEN {FullFile(r)} ELSE {FullFile(r), PartFile(r)}

\* A write that raises after none or some of the bytes
FailedWriteOutcomes(content, r) == {content, PartFile(r)}

\* line 57 and the end of the with block: json.dump, flush, close
SaveWrite(p) ==
    /\ pc[p] = "save_write"
    /\ LET closed == [fd EXCEPT ![p] = NoInode]
       IN  /\ \E c \in WriteOutcomes(inodes[fd[p]], st[p]) :
                 inodes' = Sweep([inodes EXCEPT ![fd[p]] = c], canon, tmp, closed)
           /\ fd' = closed
    /\ pc' = [pc EXCEPT ![p] = "save_rename"]
    /\ UNCHANGED <<pureVars, canon, tmp, clock, kind, title, instr, st, loaded,
                   fault, overlapped, canonAtStart, canonAtSave, exitStatus,
                   response, renames>>

\* line 57 raises; the with block still closes the file
SaveWriteFails(p) ==
    /\ pc[p] = "save_write"
    /\ LET closed == [fd EXCEPT ![p] = NoInode]
       IN  /\ \E c \in FailedWriteOutcomes(inodes[fd[p]], st[p]) :
                 inodes' = Sweep([inodes EXCEPT ![fd[p]] = c], canon, tmp, closed)
           /\ fd' = closed
    /\ fault' = [fault EXCEPT ![p] = "write"]
    /\ pc' = [pc EXCEPT ![p] = "cleanup"]
    /\ UNCHANGED <<pureVars, canon, tmp, clock, kind, title, instr, st, loaded,
                   overlapped, canonAtStart, canonAtSave, exitStatus, response,
                   renames>>

\* line 60: temp_file.replace(STATE_FILE); FileNotFoundError if the temporary
\* path names nothing
SaveRename(p) ==
    /\ pc[p] = "save_rename"
    /\ IF tmp # NoInode
       THEN /\ canon' = tmp
            /\ tmp' = NoInode
            /\ inodes' = Sweep(inodes, tmp, NoInode, fd)
            /\ renames' = Append(renames, p)
            /\ pc' = [pc EXCEPT ![p] = "saved"]
       ELSE /\ pc' = [pc EXCEPT ![p] = "cleanup"]
            /\ UNCHANGED <<canon, tmp, inodes, renames>>
    /\ UNCHANGED <<pureVars, clock, kind, title, instr, st, loaded, fd, fault,
                   overlapped, canonAtStart, canonAtSave, exitStatus,
                   response>>

\* line 60 raises an OSError: neither path changes
SaveRenameFails(p) ==
    /\ pc[p] = "save_rename"
    /\ fault' = [fault EXCEPT ![p] = "rename"]
    /\ pc' = [pc EXCEPT ![p] = "cleanup"]
    /\ UNCHANGED <<pureVars, fsVars, kind, title, instr, st, loaded, fd,
                   overlapped, canonAtStart, canonAtSave, exitStatus, response,
                   renames>>

\* line 63: temp_file.exists()
Cleanup(p) ==
    /\ pc[p] = "cleanup"
    /\ pc' = [pc EXCEPT ![p] = IF tmp # NoInode THEN "unlink" ELSE "raise"]
    /\ UNCHANGED <<pureVars, fsVars, kind, title, instr, st, loaded, fd, fault,
                   overlapped, canonAtStart, canonAtSave, exitStatus, response,
                   renames>>

\* mutant: the handler re-raises without removing the temporary file
UnlinkLeaves(p) ==
    /\ pc[p] = "unlink"
    /\ pc' = [pc EXCEPT ![p] = "raise"]
    /\ UNCHANGED <<pureVars, fsVars, kind, title, instr, st, loaded, fd, fault,
                   overlapped, canonAtStart, canonAtSave, exitStatus, response,
                   renames>>

\* line 64: temp_file.unlink(); FileNotFoundError if it is gone by now, which
\* leaves the handler like the raise of line 65 does
Unlink(p) ==
    /\ pc[p] = "unlink"
    /\ tmp' = NoInode
    /\ inodes' = Sweep(inodes, canon, NoInode, fd)
    /\ pc' = [pc EXCEPT ![p] = "raise"]
    /\ UNCHANGED <<pureVars, canon, clock, kind, title, instr, st, loaded, fd,
                   fault, overlapped, canonAtStart, canonAtSave, exitStatus,
                   response, renames>>

\* line 65, then main's `except Exception`: sys.exit(1)
Raise(p) ==
    /\ pc[p] = "raise"
    /\ Exit(p, 1)
    /\ UNCHANGED <<pureVars, fsVars, kind, title, instr, st, loaded, fd, fault,
                   overlapped, canonAtStart, canonAtSave, response, renames>>

\* after save_state returned: decay.py lines 68-73, interact.py lines 210-228;
\* init_state line 90 and the caller of save_state(load_state()) go on as well
Finish(p) ==
    /\ pc[p] = "saved"
    /\ response' = [response EXCEPT ![p] =
                        IF kind[p] = "interact" THEN "status" ELSE response[p]]
    /\ Exit(p, 0)
    /\ UNCHANGED <<pureVars, fsVars, kind, title, instr, st, loaded, fd, fault,
                   overlapped, canonAtStart, canonAtSave, renames>>

---------------------------------------------------------------------------
(* utils.py: get_state and init_state *)

\* mutant: init_state returns the defaults without saving them
InitStateNoSave(p) ==
    /\ pc[p] = "init_state"
    /\ st' = [st EXCEPT ![p] = [default_state EXCEPT !.last_updated = clock]]
    /\ clock' = clock + 1
    /\ pc' = [pc EXCEPT ![p] = "return"]
    /\ UNCHANGED <<pureVars, inodes, canon, tmp, kind, title, instr, loaded,
                   fd, fault, overlapped, canonAtStart, canonAtSave, exitStatus,
                   response, renames>>

\* init_state, lines 75-86: the default dict with the time of the call, then
\* STATE_FILE.exists(); save_state is handed the dict that is returned
InitState(p) ==
    /\ pc[p] = "init_state"
    /\ st' = [st EXCEPT ![p] = [default_state EXCEPT !.last_updated = clock]]
    /\ clock' = clock + 1
    /\ pc' = [pc EXCEPT ![p] = IF canon = NoInode THEN "save" ELSE "return"]
    /\ UNCHANGED <<pureVars, inodes, canon, tmp, kind, title, instr, loaded,
                   fd, fault, overlapped, canonAtStart, canonAtSave, exitStatus,
                   response, renames>>

\* get_state returns the dict (lines 101 and 103) to its caller
Return(p) ==
    /\ pc[p] = "return"
    /\ Exit(p, 0)
    /\ UNCHANGED <<pureVars, fsVars, kind, title, instr, st, loaded, fd, fault,
                   overlapped, canonAtStart, canonAtSave, response, renames>>

---------------------------------------------------------------------------
(* Specifications of the invocations *)

InitRun ==
    /\ \E file \in InitialFiles :
          /\ InitFs(file)
          /\ rec = RecordOf(file)
    /\ prev = rec
    /\ lastOp = NoOp
    /\ ncalls = 0
    /\ InitProcs

Step(p) ==
    \/ Parse(p) \/ Reject(p)
    \/ LoadExists(p) \/ LoadOpen(p) \/ LoadRead(p)
    \/ Decay(p) \/ Instruct(p)
    \/ SaveStamp(p) \/ SaveOpen(p) \/ SaveOpenFails(p)
    \/ SaveWrite(p) \/ SaveWriteFails(p)
    \/ SaveRename(p) \/ SaveRenameFails(p)
    \/ Cleanup(p) \/ Unlink(p) \/ Raise(p)
    \/ Finish(p)

StartAny(p) ==
    \/ Start(p, "decay", <<>>)
    \/ \E t \in Titles : Start(p, "interact", t)

\* the invocations run concurrently: nothing in the code excludes it
Next == \E p \in Procs : StartAny(p) \/ Step(p)

Spec == InitRun /\ [][Next]_vars

\* The store with its direct callers as well, and with a state file that may
\* hold anything: a record, nothing, or part of a record's serialization.
StoreFiles ==
    InitialFiles \cup { EmptyFile, PartFile(default_state) }

InitStore ==
    /\ \E file \in StoreFiles :
          /\ InitFs(file)
          /\ rec = RecordOf(file)
    /\ prev = rec
    /\ lastOp = NoOp
    /\ ncalls = 0
    /\ InitProcs

StartStore(p) ==
    \/ StartAny(p)
    \/ Start(p, "get_state", <<>>)
    \/ Start(p, "round_trip", <<>>)

NextStore ==
    \E p \in Procs : StartStore(p) \/ Step(p) \/ InitState(p) \/ Return(p)

SpecStore == InitStore /\ [][NextStore]_vars

---------------------------------------------------------------------------
(* The terms of the specification that the properties are stated in *)

Stats == {"health", "hunger", "mood"}

Clamp(x) == Max(0, Min(100, x))

\* the three-tier classification, first match wins
Tier(r) ==
    IF r.health < 30 \/ r.hunger > 80 \/ r.mood < 20 THEN "Poor"
    ELSE IF r.health < 60 \/ r.hunger > 60 \/ r.mood < 40 THEN "Fair"
    ELSE "Good"

TierPic(t) ==
    CASE t = "Poor" -> "images/bad.png"
      [] t = "Fair" -> "images/general.png"
      [] t = "Good" -> "images/good.png"

TierEmoji(t) ==
    CASE t = "Poor" -> "distressed"
      [] t = "Fair" -> "neutral"
      [] t = "Good" -> "content"

\* the table of instruction deltas
Delta(i) ==
    CASE i = FEED -> [hunger |-> 0 - 30, mood |-> 10, health |-> 5]
      [] i = PLAY -> [hunger |-> 5,      mood |-> 30, health |-> 0]
      [] i = PET  -> [hunger |-> 0,      mood |-> 20, health |-> 0]
      [] i = CARE -> [hunger |-> 0 - 20, mood |-> 15, health |-> 3]
      [] i = HEAL -> [hunger |-> 0,      mood |-> 10, health |-> 20]

---------------------------------------------------------------------------
(* Properties of the direct calls (SpecPure, SpecDecay) *)

\* C1: from any record with health, hunger and mood in 0..100, after any
\* sequence of apply_decay and apply_instruction calls the three are still
\* integers in 0..100.
C1_StatsInRange == \A f \in Stats : rec[f] \in 0..100

\* C1 witness: a decay, then a FEED that floors hunger at 0 and caps mood at 100
C1_Witness ==
    /\ ncalls = 2
    /\ lastOp = FEED
    /\ prev.status_emoji # NoKey
    /\ prev.hunger < 30 /\ rec.hunger = 0
    /\ prev.mood = 90 /\ rec.mood = 100

\* C2 (as claimed): after every call of apply_decay or apply_instruction the
\* stored status_pic, and status_emoji when the record has one, is the
\* representation of the tier of the record's current health, hunger and mood.
C2_DisplayFresh ==
    lastOp # NoOp =>
        /\ rec.status_pic = TierPic(Tier(rec))
        /\ rec.status_emoji # NoKey => rec.status_emoji = TierEmoji(Tier(rec))

\* C8: apply_instruction yields the table's result: each of hunger, mood and
\* health is the old value plus the instruction's delta, clamped to 0..100.
C8_InstructionTable ==
    lastOp \in Instructions =>
        \A f \in Stats : rec[f] = Clamp(prev[f] + Delta(lastOp)[f])

\* C8 witness: CARE caps health at 100 and floors hunger at 0
C8_Witness ==
    /\ lastOp = CARE
    /\ prev.health = 98 /\ rec.health = 100
    /\ prev.hunger = 0 /\ rec.hunger = 0
    /\ rec.mood = prev.mood + 15

\* C9: apply_decay sets hunger to min(100, hunger + 20) and mood to
\* max(0, mood - 10), then lowers health to max(0, health - 5) exactly when the
\* updated hunger is > 80 or the updated mood is < 20.
C9_DecayRule ==
    lastOp = DecayOp =>
        /\ rec.hunger = Min(100, prev.hunger + 20)
        /\ rec.mood = Max(0, prev.mood - 10)
        /\ rec.health = IF rec.hunger > 80 \/ rec.mood < 20
                        THEN Max(0, prev.health - 5)
                        ELSE prev.health

\* C9 witness: the penalty is due only to the updated hunger (61 -> 81)
C9_Witness ==
    /\ lastOp = DecayOp
    /\ prev.hunger = 61 /\ prev.mood >= 30
    /\ prev.health = 60 /\ rec.health = 55

\* C10 (as claimed): repeated apply_decay brings hunger to 100 and mood to 0
\* within at most 5 calls.
C10_SaturatedInFive == ncalls >= 5 => (rec.hunger = 100 /\ rec.mood = 0)

\* C10 (amended): repeated apply_decay brings hunger to 100 and mood to 0
\* within at most 10 calls (hunger within 5, mood within 10); from then on
\* both stay fixed, the poor-tier condition holds, and every further call
\* lowers health by exactly 5, floored at 0.
C10_SaturatedInTen ==
    /\ ncalls >= 5 => rec.hunger = 100
    /\ ncalls >= 10 => rec.mood = 0
    /\ (ncalls > 0 /\ prev.hunger = 100 /\ prev.mood = 0) =>
            /\ rec.hunger = 100
            /\ rec.mood = 0
            /\ Tier(prev) = "Poor"
            /\ rec.health = Max(0, prev.health - 5)

\* C10 witness: mood started at 100 and reaches 0 with the tenth call only;
\* hunger is fixed at 100 by then and the call costs 5 health
C10_Witness ==
    /\ ncalls = 10
    /\ prev.mood = 10 /\ rec.mood = 0
    /\ prev.hunger = 100 /\ rec.hunger = 100
    /\ prev.health > 5 /\ rec.health = prev.health - 5

\* the record decay cannot degrade further
Saturated(r) == r.health = 0 /\ r.hunger = 100 /\ r.mood = 0

\* C18: under apply_decay alone every record with health, hunger and mood in
\* 0..100 reaches health 0, hunger 100, mood 0 (after 24 calls at the latest),
\* and there apply_decay changes none of the three: decay alone never leaves
\* that state.
C18_DecayReachesFixedPoint ==
    /\ ncalls >= 24 => Saturated(rec)
    /\ (lastOp = DecayOp /\ Saturated(prev)) => Saturated(rec)
    /\ Saturated(rec) => \A f \in Stats : apply_decay(rec)[f] = rec[f]

\* C18 witness: the slowest record (health 100, hunger 0, mood 100) arrives
\* with its 24th call
C18_Witness ==
    /\ ncalls = 24
    /\ lastOp = DecayOp
    /\ prev.health = 5 /\ prev.hunger = 100 /\ prev.mood = 0
    /\ Saturated(rec)

Tiers == {"Poor", "Fair", "Good"}

\* C16: every (health, hunger, mood) in 0..100 gets exactly one tier, first
\* match first (Poor if health < 30 or hunger > 80 or mood < 20; else Fair if
\* health < 60 or hunger > 60 or mood < 40; else Good), and for every triple
\* the tier that apply_decay encodes in status_emoji is the tier that
\* apply_instruction encodes in status_pic.
C16_TierSitesAgree ==
    /\ Cardinality({t \in Tiers :
                        /\ DecayStatus(rec).status_emoji = TierEmoji(t)
                        /\ InstructionStatus(rec).status_pic = TierPic(t)}) = 1
    /\ DecayStatus(rec).status_emoji = TierEmoji(Tier(rec))
    /\ InstructionStatus(rec).status_pic = TierPic(Tier(rec))
    /\ lastOp = DecayOp => rec.status_emoji = TierEmoji(Tier(rec))
    /\ lastOp \in Instructions => rec.status_pic = TierPic(Tier(rec))

\* C16 witness: a decay left hunger at 80 with health and mood high, which is
\* Fair (80 is not above 80) at both call sites
C16_Witness ==
    /\ lastOp = DecayOp
    /\ rec.hunger = 80 /\ rec.health >= 60 /\ rec.mood >= 40
    /\ rec.status_emoji = "neutral"
    /\ InstructionStatus(rec).status_pic = "images/general.png"

---------------------------------------------------------------------------
(* Properties of the invocations (Spec) *)

Canonical == ContentAt(inodes, canon)

Rejected(p) ==
    kind[p] = "interact" /\ pc[p] \in {"reject", "exit"} /\ instr[p] = None

\* the positions of a run from the call of save_state to its return
SavePcs == {"save", "save_open", "save_write", "save_rename", "saved"}

\* C3: when parse_instruction rejects the title the run does no load, no
\* decay, no instruction and no save, leaves data/state.json as it was when
\* the run started (no other invocation running meanwhile), produces the
\* help message and exits with status 1.
C3_RejectShortCircuits ==
    \A p \in Procs :
        Rejected(p) =>
            /\ loaded[p] = NoRec /\ st[p] = NoRec
            /\ canonAtSave[p] = FreeInode
            /\ \A k \in 1..Len(renames) : renames[k] # p
            /\ ~overlapped[p] /\ pc[p] = "reject" => Canonical = canonAtStart[p]
            /\ pc[p] = "exit" =>
                   /\ exitStatus[p] = 1
                   /\ response[p] = "help"
                   /\ (\A q \in Procs \ {p} : pc[q] = "idle") =>
                          (Canonical = canonAtStart[p] /\ tmp = NoInode)

\* C3 witness: "FEED|Octavia|" was rejected, the run is over, the file is there
C3_Witness ==
    \E p \in Procs :
        /\ Rejected(p) /\ pc[p] = "exit"
        /\ title[p] = <<"F","E","E","D","|","O","c","t","a","v","i","a","|">>
        /\ Canonical.kind = "full"
        /\ \A q \in Procs \ {p} : pc[q] = "idle"

\* C4: if opening, writing or renaming the temporary file fails (and no other
\* invocation ran meanwhile), then when the error propagates the temporary
\* file is gone and data/state.json holds what it held when save_state was
\* called (or is still absent); at no point of the handler is it truncated,
\* partially written or removed.
C4_FailedSaveLeavesCanonical ==
    \A p \in Procs :
        (fault[p] # "none" /\ ~overlapped[p]
            /\ pc[p] \in {"cleanup", "unlink", "raise"}) =>
            /\ Canonical = canonAtSave[p]
            /\ pc[p] = "raise" => tmp = NoInode

\* C4 witness: the write failed half way, and the error is about to propagate
C4_Witness ==
    \E p \in Procs :
        /\ pc[p] = "raise"
        /\ fault[p] = "write"
        /\ ~overlapped[p]
        /\ canonAtSave[p].kind = "full"

\* C5 (as claimed): data/state.json, whenever it exists, holds a complete
\* serialized record, in every interleaving of the steps of save_state and
\* load_state of two invocations.
C5_CanonicalComplete == canon # NoInode => inodes[canon].kind = "full"

\* C6 (as claimed): when two invocations overlap, both reach save_state and
\* the environment raises no I/O error, both saves finish without error and
\* data/state.json ends holding the record of the invocation that renamed last.
C6_LaterRenameWins ==
    (\A p \in Procs : /\ pc[p] = "exit"
                       /\ overlapped[p]
                       /\ canonAtSave[p] # FreeInode
                       /\ fault[p] = "none") =>
        /\ \A p \in Procs : exitStatus[p] = 0
        /\ Len(renames) = Cardinality(Procs)
        /\ Canonical = FullFile(st[renames[Len(renames)]])

\* C7: in an interaction run whose title is accepted, decay is applied once,
\* then the instruction once, then one save: the record handed to save_state
\* has the health, hunger and mood of apply_instruction(apply_decay(loaded
\* record), instruction), and it is what data/state.json holds when the save
\* returns (no other invocation running meanwhile).  From {health 100,
\* hunger 50, mood 80} the decay gives {100, 70, 70} and FEED then
\* {100, 40, 80}, tier Good.
C7_DecayThenInstruction ==
    \A p \in Procs :
        kind[p] = "interact" =>
            /\ (pc[p] = "instruct" /\ loaded[p].health = 100
                    /\ loaded[p].hunger = 50 /\ loaded[p].mood = 80) =>
                   (st[p].health = 100 /\ st[p].hunger = 70 /\ st[p].mood = 70)
            /\ pc[p] \in SavePcs =>
                   /\ \A f \in Stats :
                          st[p][f] =
                            apply_instruction(apply_decay(loaded[p]), instr[p])[f]
                   /\ (instr[p] = FEED /\ loaded[p].health = 100
                          /\ loaded[p].hunger = 50 /\ loaded[p].mood = 80) =>
                         /\ st[p].health = 100
                         /\ st[p].hunger = 40
                         /\ st[p].mood = 80
                         /\ st[p].status_pic = TierPic("Good")
            /\ (pc[p] = "saved" /\ ~overlapped[p]) =>
                   /\ Canonical = FullFile(st[p])
                   /\ Cardinality({k \in 1..Len(renames) : renames[k] = p}) = 1

\* C7 witness: FEED on the default record has just been saved
C7_Witness ==
    \E p \in Procs :
        /\ kind[p] = "interact" /\ pc[p] = "saved" /\ instr[p] = FEED
        /\ ~overlapped[p]
        /\ loaded[p].health = 100 /\ loaded[p].hunger = 50 /\ loaded[p].mood = 80
        /\ Canonical.data.hunger = 40

---------------------------------------------------------------------------
(* Properties of the command parser and of the README links (SpecParse) *)

\* positions of the delimiter in a title
BarsIn(t) == {i \in 1..Len(t) : t[i] = "|"}
TheBar(t) == CHOOSE i \in BarsIn(t) : TRUE
\* the two segments of a title that holds exactly one delimiter
FirstSegment(t)  == SubSeq(t, 1, TheBar(t) - 1)
SecondSegment(t) == SubSeq(t, TheBar(t) + 1, Len(t))

\* a direct call of parse_instruction has returned to p
Parsed(p) == pc[p] = "exit" /\ kind[p] = "parse"

\* the title splits into exactly two non-empty segments, a command and the name
TwoSegments(t) ==
    /\ Cardinality(BarsIn(t)) = 1
    /\ FirstSegment(t) # <<>> /\ SecondSegment(t) # <<>>
    /\ Upper(FirstSegment(t)) \in Instructions
    /\ Upper(SecondSegment(t)) = OCTAVIA

\* the same, with surrounding whitespace removed from the two segments
TwoStrippedSegments(t) ==
    /\ Cardinality(BarsIn(t)) = 1
    /\ Upper(Strip(FirstSegment(t))) \in Instructions
    /\ Upper(Strip(SecondSegment(t))) = OCTAVIA

C19_LinkTitlesAccepted ==
    \A p \in Procs :
        (pc[p] = "exit" /\ kind[p] = "link") =>
            \A i \in 1..Len(COMMAND_LINKS) :
                title[p] = TitleOfLink(build_link(COMMAND_LINKS[i])) =>
                    instr[p] = COMMAND_LINKS[i]

---------------------------------------------------------------------------
(* Properties of the state store (SpecStore) *)

\* the fields of the default record that the specification lists
DefaultFields == {"health", "hunger", "mood", "level", "owner_count", "status_pic"}

\* C12: get_state (no other invocation running meanwhile) returns the loaded
\* record without writing anything when data/state.json holds a record; when
\* the file is absent it builds the default record {health 100, hunger 50,
\* mood 80, level 1, owner_count 0, status_pic good}, saves it to
\* data/state.json and returns a record equal to the saved one.
C12_GetStateLoadsOrInitializes ==
    \A p \in Procs :
        (kind[p] = "get_state" /\ ~overlapped[p]) =>
            /\ canonAtStart[p].kind = "full" =>
                   /\ pc[p] \notin {"init_state", "saved"}
                   /\ canonAtSave[p] = FreeInode
                   /\ \A k \in 1..Len(renames) : renames[k] # p
                   /\ Running(p) => Canonical = canonAtStart[p]
                   /\ pc[p] \in {"return", "exit"} =>
                          /\ st[p] = canonAtStart[p].data
                          /\ exitStatus[p] = 0
            /\ canonAtStart[p].kind = "absent" =>
                   /\ pc[p] \notin {"load_open", "load_read"}
                   /\ pc[p] \in {"return", "saved"} =>
                          /\ Canonical = FullFile(st[p])
                          /\ \A f \in DefaultFields : st[p][f] = default_state[f]
                          /\ st[p].health = 100 /\ st[p].hunger = 50
                          /\ st[p].mood = 80 /\ st[p].level = 1
                          /\ st[p].owner_count = 0
                          /\ st[p].status_pic = "images/good.png"
                   /\ (pc[p] = "exit" /\ fault[p] = "none") => exitStatus[p] = 0

\* C12 witness: the file was absent and get_state's init_state has saved the
\* defaults
C12_Witness ==
    \E p \in Procs :
        /\ kind[p] = "get_state" /\ ~overlapped[p]
        /\ canonAtStart[p].kind = "absent"
        /\ pc[p] = "saved"
        /\ Canonical = FullFile(st[p])
        /\ st[p].hunger = 50

Corrupt(content) == content.kind \in {"empty", "partial"}

\* the other invocations have not started
Alone(p) == \A q \in Procs \ {p} : pc[q] = "idle"

\* C14: when data/state.json does not hold valid JSON, load_state fails with
\* the format error: get_state does not repair or overwrite the file and hands
\* the error on, and a decay run or an interaction run (with an accepted
\* title) ends with a non-zero status, the content of data/state.json being
\* what it was.
C14_FormatErrorIsFatal ==
    \A p \in Procs :
        (Corrupt(canonAtStart[p]) /\ ~overlapped[p] /\ ~Rejected(p)
            /\ kind[p] \in {"decay", "interact", "get_state"}) =>
            /\ pc[p] \notin {"init_state", "return", "decay", "instruct",
                             "cleanup", "unlink", "raise"} \cup SavePcs
            /\ st[p] = NoRec /\ loaded[p] = NoRec
            /\ canonAtSave[p] = FreeInode
            /\ \A k \in 1..Len(renames) : renames[k] # p
            /\ Running(p) => Canonical = canonAtStart[p]
            /\ pc[p] = "exit" =>
                   /\ exitStatus[p] # 0
                   /\ Alone(p) => Canonical = canonAtStart[p]

\* C14 witness: an interaction run with an accepted title has ended on a file
\* that holds part of a record
C14_Witness ==
    \E p \in Procs :
        /\ kind[p] = "interact" /\ instr[p] = FEED
        /\ canonAtStart[p].kind = "partial"
        /\ pc[p] = "exit" /\ exitStatus[p] = 1
        /\ Alone(p)
        /\ Canonical.kind = "partial"

---------------------------------------------------------------------------
(* Properties of the runs that the code does not have (Spec) *)

\* C15 (as claimed): a decay run or an interaction run with an accepted title
\* that starts with data/state.json absent (no other invocation running
\* meanwhile, no I/O error) creates the record with the defaults, goes on to
\* change and save it, and does not end with a failure status.
C15_AbsentFileRecovered ==
    \A p \in Procs :
        (kind[p] \in {"decay", "interact"} /\ ~Rejected(p) /\ ~overlapped[p]
            /\ canonAtStart[p].kind = "absent" /\ fault[p] = "none"
            /\ pc[p] = "exit") =>
            /\ exitStatus[p] = 0
            /\ st[p] # NoRec
            /\ \E k \in 1..Len(renames) : renames[k] = p

\* the fields that neither engine is to touch
FrameFields == {"name", "level", "owner_count"}

\* C17: apply_decay and apply_instruction leave name, level and owner_count
\* as they are, for every record and every instruction; across any sequence
\* of decay runs and interaction runs the name, level and owner_count that
\* data/state.json holds keep the values they had at first.
C17_FrameKept ==
    /\ \A p \in Procs :
           st[p] # NoRec =>
               \A f \in FrameFields :
                   /\ st[p][f] = loaded[p][f]
                   /\ pc[p] = "decay" => apply_decay(st[p])[f] = st[p][f]
                   /\ pc[p] = "instruct" =>
                          \A i \in Instructions :
                              apply_instruction(st[p], i)[f] = st[p][f]
    /\ Canonical.kind = "full" =>
           \A f \in FrameFields : Canonical.data[f] = rec[f]

\* C17 witness: FEED has been saved over a record with name Tako, level 4 and
\* 12 owners
C17_Witness ==
    \E p \in Procs :
        /\ kind[p] = "interact" /\ instr[p] = FEED /\ pc[p] = "saved"
        /\ ~overlapped[p]
        /\ loaded[p].level = 4
        /\ Canonical.data.name = "Tako"
        /\ Canonical.data.level = 4
        /\ Canonical.data.owner_count = 12
        /\ Canonical.data.hunger < loaded[p].hunger

=============================================================================
